---- MODULE Spec2Model ----
(***************************************************************************)
(* Output parsers and the dpkg-query status reconciler of syspkg (apt and  *)
(* dnf backends).  Texts are TLA+ strings and every parser is computed     *)
(* character by character the way the Go code computes it.                 *)
(***************************************************************************)
EXTENDS Integers, Sequences, FiniteSets, TLC

VARIABLES op, msg, opts, exactMatch, pc, blocks, bi, packagesDict, pending0,
          queryCount, queryArgs, runErr, out, dlines, di, packagesList,
          visited, gpsList, gpsErr, ret, retErr, panicked, pkgInfo, calls, maps,
          adapterOp, cmdErr

vars == <<op, msg, opts, exactMatch, pc, blocks, bi, packagesDict, pending0,
          queryCount, queryArgs, runErr, out, dlines, di, packagesList,
          visited, gpsList, gpsErr, ret, retErr, panicked, pkgInfo, calls, maps,
          adapterOp, cmdErr>>

(* ---------------------------- bounds ----------------------------------- *)
MaxBlocks == 2
MaxDpkgLines == 2
MaxLines == 2

(* ------------------------ Go string library ---------------------------- *)
Digits == {"0", "1", "2", "3", "4", "5", "6", "7", "8", "9"}

Letters == {"a", "b", "c", "d", "e", "f", "g", "h", "i", "j", "k", "l", "m",
            "n", "o", "p", "q", "r", "s", "t", "u", "v", "w", "x", "y", "z",
            "A", "B", "C", "D", "E", "F", "G", "H", "I", "J", "K", "L", "M",
            "N", "O", "P", "Q", "R", "S", "T", "U", "V", "W", "X", "Y", "Z"}

IsSpace(c) == c \in {" ", "\t", "\n", "\r"}

At(s, i) == SubSeq(s, i, i)

HasPrefix(s, p) == Len(s) >= Len(p) /\ SubSeq(s, 1, Len(p)) = p

HasSuffix(s, p) == Len(s) >= Len(p) /\ SubSeq(s, Len(s) - Len(p) + 1, Len(s)) = p

TrimPrefix(s, p) == IF HasPrefix(s, p) THEN SubSeq(s, Len(p) + 1, Len(s)) ELSE s

TrimSuffix(s, p) == IF HasSuffix(s, p) THEN SubSeq(s, 1, Len(s) - Len(p)) ELSE s

Contains(s, sub) == \E i \in 1..(Len(s) - Len(sub) + 1) : SubSeq(s, i, i + Len(sub) - 1) = sub

\* position of the first occurrence of sub in s at or after i, 0 when none
IndexFrom(s, sub, i) ==
    LET hits == {k \in i..(Len(s) - Len(sub) + 1) : SubSeq(s, k, k + Len(sub) - 1) = sub}
    IN  IF hits = {} THEN 0 ELSE CHOOSE k \in hits : \A j \in hits : k <= j

RECURSIVE SplitFrom(_, _, _, _)
SplitFrom(s, sep, start, acc) ==
    LET k == IndexFrom(s, sep, start)
    IN  IF k = 0
        THEN Append(acc, SubSeq(s, start, Len(s)))
        ELSE SplitFrom(s, sep, k + Len(sep), Append(acc, SubSeq(s, start, k - 1)))

Split(s, sep) == SplitFrom(s, sep, 1, <<>>)

\* the fields of s that start at or after position i, appended to acc
RECURSIVE FieldsFrom(_, _, _)
FieldsFrom(s, i, acc) ==
    LET starts == {k \in i..Len(s) : ~IsSpace(At(s, k))}
    IN  IF starts = {} THEN acc
        ELSE LET b == CHOOSE k \in starts : \A j \in starts : k <= j
                 stops == {k \in b..Len(s) : IsSpace(At(s, k))}
                 e == IF stops = {} THEN Len(s) + 1
                      ELSE CHOOSE k \in stops : \A j \in stops : k <= j
             IN  FieldsFrom(s, e, Append(acc, SubSeq(s, b, e - 1)))

Fields(s) == FieldsFrom(s, 1, <<>>)

RECURSIVE Join(_, _)
Join(ss, sep) ==
    IF Len(ss) = 0 THEN ""
    ELSE IF Len(ss) = 1 THEN ss[1]
    ELSE ss[1] \o sep \o Join(Tail(ss), sep)

(* ------------------------- package records ----------------------------- *)
PackageStatusInstalled == "installed"
PackageStatusAvailable == "available"
PackageStatusUpgradable == "upgradable"
PackageStatusConfigFiles == "config-files"
PackageStatusUnknown == "unknown"

PackageInfo(name, version, newVersion, category, arch, status, manager) ==
    [Name |-> name, Version |-> version, NewVersion |-> newVersion,
     Category |-> category, Arch |-> arch, Status |-> status,
     PackageManager |-> manager]

ZeroPackageInfo == PackageInfo("", "", "", "", "", "", "")

EmptyDict == [n \in {} |-> ZeroPackageInfo]

MapPut(m, k, v) == [n \in DOMAIN m \cup {k} |-> IF n = k THEN v ELSE m[n]]

MapDelete(m, k) == [n \in DOMAIN m \ {k} |-> m[n]]

(* --------------------- regular-expression helpers ---------------------- *)
WordChars == Letters \cup Digits \cup {"_"}

\* number of consecutive characters of s, from position i on, that lie in cls
RECURSIVE RunLen(_, _, _)
RunLen(s, i, cls) ==
    IF i > Len(s) THEN 0
    ELSE IF At(s, i) \in cls THEN 1 + RunLen(s, i + 1, cls) ELSE 0

\* regexp `^\d`
StartsWithDigit(s) == Len(s) >= 1 /\ At(s, 1) \in Digits

\* regexp `^[\w\d-]+/[\w\d-,]+` of apt.ParseFindOutput
FindHeaderMatch(block) ==
    LET n == RunLen(block, 1, WordChars \cup {"-"})
    IN  /\ n >= 1
        /\ n + 2 <= Len(block)
        /\ At(block, n + 1) = "/"
        /\ At(block, n + 2) \in WordChars \cup {"-", ","}

(* ------------------- apt search and status reconciler ------------------ *)
AptPm == "apt"

SearchPrefix == "Sorting...\nFull Text Search...\n"

\* apt.ParseFindOutput: the text is cut into blank-line separated blocks
FindBlocks(m) == Split(TrimSuffix(TrimPrefix(m, SearchPrefix), "\n"), "\n\n")

\* apt.ParseFindOutput: body of the loop over the blocks
FindBlockStep(dict, block) ==
    IF ~FindHeaderMatch(block)
    THEN [panic |-> FALSE, dict |-> dict]
    ELSE LET parts == Fields(block)
         IN  IF Len(parts) < 3
             THEN [panic |-> TRUE, dict |-> dict]
             ELSE LET nc == Split(parts[1], "/")
                      info == PackageInfo(nc[1], parts[2], parts[2], nc[2],
                                          parts[3], "", AptPm)
                  IN  [panic |-> FALSE, dict |-> MapPut(dict, info.Name, info)]

\* exit code carried by the error of cmd.CombinedOutput
IsExitError(e) == e \in {"exit1", "exit2"}

ExitCode(e) == IF e = "exit1" THEN 1 ELSE 2

\* a query that is handed one name only
DpkgQueryArgsOneName(packages) == {CHOOSE n \in DOMAIN packages : TRUE}

\* getPackageStatus: the names handed to the one dpkg-query invocation
DpkgQueryArgs(packages) == DOMAIN packages

\* getPackageStatus: the test that turns a failed invocation into an error
CommandFailed(e, o) ==
    /\ e # "nil"
    /\ IsExitError(e)
    /\ ExitCode(e) # 1
    /\ ~Contains(o, "no packages found matching")

DpkgLines(o) == Split(TrimSuffix(o, "\n"), "\n")

\* status and version given to the record of one dpkg-query line
DpkgMerge(pkg, line, parts, version) ==
    IF HasPrefix(line, "dpkg-query: ")
    THEN [pkg EXCEPT !.Status = PackageStatusUnknown, !.Version = ""]
    ELSE IF parts[Len(parts) - 1] = "installed"
    THEN [pkg EXCEPT !.Status = PackageStatusInstalled,
                     !.Version = IF version # "" THEN version ELSE @]
    ELSE IF parts[Len(parts) - 1] = "config-files"
    THEN [pkg EXCEPT !.Status = PackageStatusConfigFiles,
                     !.Version = IF version # "" THEN version ELSE @]
    ELSE [pkg EXCEPT !.Status = PackageStatusAvailable,
                     !.Version = IF version # "" THEN version ELSE @]

\* name a dpkg-query line is about
DpkgLineName(parts) ==
    LET n0 == parts[1]
        n1 == IF HasPrefix(n0, "dpkg-query:") THEN parts[Len(parts)] ELSE n0
    IN  IF Contains(n1, ":") THEN Split(n1, ":")[1] ELSE n1

DpkgLineVersion(parts) ==
    IF StartsWithDigit(parts[Len(parts)]) THEN parts[Len(parts)] ELSE ""

\* record looked up for a dpkg-query line: the pending one, or an empty one
DpkgLookup(packages, name) ==
    IF name \in DOMAIN packages THEN packages[name] ELSE ZeroPackageInfo

\* ParseDpkgQueryOutput: body of the loop over the lines
DpkgLineStep(list, packages, line) ==
    IF Len(line) = 0
    THEN [list |-> list, packages |-> packages]
    ELSE LET parts == Fields(line)
         IN  IF Len(parts) < 2
             THEN [list |-> list, packages |-> packages]
             ELSE LET name == DpkgLineName(parts)
                  IN  IF name = ""
                      THEN [list |-> list, packages |-> packages]
                      ELSE [list |-> Append(list, DpkgMerge(DpkgLookup(packages, name), line,
                                                            parts, DpkgLineVersion(parts))),
                            packages |-> MapDelete(packages, name)]

(* ----------------------------- line parsers ---------------------------- *)
DnfPm == "dnf"

\* a parser's outcome: the records it returns, or a run-time panic
Returned(pkgs) == [panic |-> FALSE, packages |-> pkgs]

Panic == [panic |-> TRUE, packages |-> <<>>]

\* outcome of one line: no record, one record, or a panic
Skip == [panic |-> FALSE, recs |-> <<>>]

Emit(rec) == [panic |-> FALSE, recs |-> <<rec>>]

LinePanic == [panic |-> TRUE, recs |-> <<>>]

RECURSIVE TrimLeft(_, _)
TrimLeft(s, cutset) ==
    IF Len(s) > 0 /\ At(s, 1) \in cutset THEN TrimLeft(SubSeq(s, 2, Len(s)), cutset) ELSE s

RECURSIVE TrimRight(_, _)
TrimRight(s, cutset) ==
    IF Len(s) > 0 /\ At(s, Len(s)) \in cutset THEN TrimRight(SubSeq(s, 1, Len(s) - 1), cutset) ELSE s

Trim(s, cutset) == TrimRight(TrimLeft(s, cutset), cutset)

TrimSpace(s) == Trim(s, {" ", "\t", "\n", "\r"})

\* verbose logging dereferences opts
DerefPanics(o) == o = "nil"

\* regexp `Setting up ([\w\d.-]+):?([\w\d]+)? \(([\w\d\.-]+)\)` tried at position p
SettingUpAt(line, p) ==
    LET q == p + Len("Setting up ")
        n1 == RunLen(line, q, WordChars \cup {".", "-"})
        r == q + n1
        colon == r <= Len(line) /\ At(line, r) = ":"
        r2 == IF colon THEN r + 1 ELSE r
        n2 == RunLen(line, r2, WordChars)
        r3 == r2 + n2
        n3 == RunLen(line, r3 + 2, WordChars \cup {".", "-"})
        e == r3 + 2 + n3
    IN  [ok |-> /\ n1 >= 1
                /\ r3 + 1 <= Len(line)
                /\ SubSeq(line, r3, r3 + 1) = " ("
                /\ n3 >= 1
                /\ e <= Len(line)
                /\ At(line, e) = ")",
         name |-> SubSeq(line, q, r - 1),
         arch |-> SubSeq(line, r2, r3 - 1),
         version |-> SubSeq(line, r3 + 2, e - 1)]

\* leftmost match of the pattern in the line
RECURSIVE SettingUpMatch(_, _)
SettingUpMatch(line, from) ==
    LET p == IndexFrom(line, "Setting up ", from)
    IN  IF p = 0 THEN [ok |-> FALSE, name |-> "", arch |-> "", version |-> ""]
        ELSE IF SettingUpAt(line, p).ok THEN SettingUpAt(line, p)
        ELSE SettingUpMatch(line, p + 1)

\* apt.ParseInstallOutput: body of the loop over the lines
AptInstallLine(line, o) ==
    IF DerefPanics(o) THEN LinePanic
    ELSE LET m == SettingUpMatch(line, 1)
         IN  IF ~m.ok THEN Skip
             ELSE IF m.name = "" THEN Skip
             ELSE Emit(PackageInfo(m.name, m.version, m.version, "",
                                   TrimPrefix(m.arch, ":"), PackageStatusInstalled, AptPm))

\* ParseDeletedOutput (apt and dnf share the code): body of the loop
DeletedLine(line, o, pm) ==
    IF DerefPanics(o) THEN LinePanic
    ELSE IF ~HasPrefix(line, "Removing") THEN Skip
    ELSE LET parts == Fields(line)
         IN  IF Len(parts) < 2 THEN LinePanic
             ELSE LET name == IF Contains(parts[2], ":") THEN Split(parts[2], ":")[1] ELSE parts[2]
                      arch == IF Contains(parts[2], ":") THEN Split(parts[2], ":")[2] ELSE ""
                  IN  IF name = "" THEN Skip
                      ELSE IF Len(parts) < 3 THEN LinePanic
                      ELSE Emit(PackageInfo(name, Trim(parts[3], {"(", ")"}), "", "",
                                            arch, PackageStatusAvailable, pm))

\* apt.ParseListInstalledOutput: body of the loop
AptListInstalledLine(line) ==
    IF Len(line) = 0 THEN Skip
    ELSE LET parts == Fields(line)
         IN  IF Len(parts) < 1 THEN LinePanic
             ELSE IF parts[1] = "" THEN Skip
             ELSE LET name == IF Contains(parts[1], ":") THEN Split(parts[1], ":")[1] ELSE parts[1]
                      arch == IF Contains(parts[1], ":") THEN Split(parts[1], ":")[2] ELSE ""
                  IN  IF Len(parts) < 2 THEN LinePanic
                      ELSE Emit(PackageInfo(name, parts[2], "", "", arch,
                                            PackageStatusInstalled, AptPm))

\* apt.ParseListUpgradableOutput: body of the loop
AptListUpgradableLine(line) ==
    IF HasPrefix(line, "Listing...") THEN Skip
    ELSE IF Len(line) = 0 THEN Skip
    ELSE LET parts == Fields(line)
         IN  IF Len(parts) < 1 THEN LinePanic
             ELSE IF Len(Split(parts[1], "/")) < 2 THEN LinePanic
             ELSE IF Len(parts) < 6 THEN LinePanic
             ELSE Emit(PackageInfo(Split(parts[1], "/")[1],
                                   TrimSuffix(parts[6], "]"),
                                   parts[2],
                                   Split(parts[1], "/")[2],
                                   parts[3],
                                   PackageStatusUpgradable, AptPm))

\* position of the last "." of token t that has text on both sides, 0 when none
RECURSIVE LastInnerDot(_, _)
LastInnerDot(t, k) ==
    IF k <= 1 THEN 0
    ELSE IF At(t, k) = "." THEN k
    ELSE LastInnerDot(t, k - 1)

\* position of the first "." of token t that has text on both sides, 0 when none
FirstInnerDot(t) ==
    IF \E k \in 2..(Len(t) - 1) : At(t, k) = "."
    THEN CHOOSE k \in 2..(Len(t) - 1) :
             At(t, k) = "." /\ \A j \in 2..(k - 1) : At(t, j) # "."
    ELSE 0

\* the fixed-column pattern with a reluctant first group: the token is cut at
\* its first dot
DnfInstallLineFirstDot(line) ==
    LET parts == Fields(line)
    IN  IF Len(line) = 0 \/ IsSpace(At(line, 1)) \/ Len(parts) < 3 THEN Skip
        ELSE LET t == parts[1]
                 k == FirstInnerDot(t)
             IN  IF k = 0 \/ ~HasPrefix(parts[3], "@") \/ Len(parts[3]) < 2 THEN Skip
                 ELSE Emit(PackageInfo(SubSeq(t, 1, k - 1), parts[2], "",
                                       SubSeq(parts[3], 2, Len(parts[3])),
                                       SubSeq(t, k + 1, Len(t)), "", DnfPm))

\* regexp `^(\S+)\.(\S+)\s+(\S+)\s+@(\S+)` of dnf.ParseInstallOutput
DnfInstallLine(line) ==
    LET parts == Fields(line)
    IN  IF Len(line) = 0 \/ IsSpace(At(line, 1)) \/ Len(parts) < 3 THEN Skip
        ELSE LET t == parts[1]
                 k == LastInnerDot(t, Len(t) - 1)
             IN  IF k = 0 \/ ~HasPrefix(parts[3], "@") \/ Len(parts[3]) < 2 THEN Skip
                 ELSE Emit(PackageInfo(SubSeq(t, 1, k - 1), parts[2], "",
                                       SubSeq(parts[3], 2, Len(parts[3])),
                                       SubSeq(t, k + 1, Len(t)), "", DnfPm))

\* one line handed to the loop body of the parser named kind
LineStep(kind, line, o) ==
    CASE kind = "apt.Install" -> AptInstallLine(line, o)
      [] kind = "apt.Deleted" -> DeletedLine(line, o, AptPm)
      [] kind = "dnf.Deleted" -> DeletedLine(line, o, DnfPm)
      [] kind = "apt.ListInstalled" -> AptListInstalledLine(line)
      [] kind = "apt.ListUpgradable" -> AptListUpgradableLine(line)
      [] kind = "dnf.Install" -> DnfInstallLine(line)

\* the loop over the lines: records are appended in line order, a panic ends it
RECURSIVE ParseLoop(_, _, _, _, _)
ParseLoop(kind, lines, i, o, acc) ==
    IF i > Len(lines) THEN Returned(acc)
    ELSE LET r == LineStep(kind, lines[i], o)
         IN  IF r.panic THEN Panic
             ELSE ParseLoop(kind, lines, i + 1, o, acc \o r.recs)

\* the lines a parser loops over
LinesOf(kind, m) ==
    IF kind = "dnf.Install" THEN Split(m, "\n") ELSE Split(TrimSuffix(m, "\n"), "\n")

\* ParseInstallOutput, ParseDeletedOutput, ParseListInstalledOutput and
\* ParseListUpgradableOutput of apt, ParseInstallOutput and ParseDeletedOutput of dnf
ParseLines(kind, m, o) == ParseLoop(kind, LinesOf(kind, m), 1, o, <<>>)

(* ------------------------------ dnf search ----------------------------- *)
DnfBannerLen == 173

RECURSIVE Repeat(_, _)
Repeat(c, n) ==
    IF n = 0 THEN ""
    ELSE LET h == Repeat(c, n \div 2)
         IN  h \o h \o (IF n % 2 = 1 THEN c ELSE "")

\* the separator dnf.ParseFindOutput splits the text at
DnfBanner == Repeat("=", DnfBannerLen)

\* `\d+\.\d+\.\d+-\d+` at position p, then `\.` and at least one character up
\* to the end of s: the position of that last dot, 0 when there is no match
DnfVersionAt(s, p) ==
    LET d1 == RunLen(s, p, Digits)
        p2 == p + d1 + 1
        d2 == RunLen(s, p2, Digits)
        p3 == p2 + d2 + 1
        d3 == RunLen(s, p3, Digits)
        p4 == p3 + d3 + 1
        d4 == RunLen(s, p4, Digits)
        e == p4 + d4
    IN  IF /\ d1 >= 1 /\ p2 - 1 <= Len(s) /\ At(s, p2 - 1) = "."
           /\ d2 >= 1 /\ p3 - 1 <= Len(s) /\ At(s, p3 - 1) = "."
           /\ d3 >= 1 /\ p4 - 1 <= Len(s) /\ At(s, p4 - 1) = "-"
           /\ d4 >= 1 /\ e < Len(s) /\ At(s, e) = "."
        THEN e ELSE 0

\* the last "-" at or before k after which the version pattern matches
RECURSIVE DnfNameEnd(_, _)
DnfNameEnd(s, k) ==
    IF k < 2 THEN 0
    ELSE IF At(s, k) = "-" /\ DnfVersionAt(s, k + 1) # 0 THEN k
    ELSE DnfNameEnd(s, k - 1)

\* dnf.parsePackageInfo
parsePackageInfo(input) ==
    LET s == TrimRight(IF IndexFrom(input, ":", 1) = 0 THEN input
                       ELSE SubSeq(input, 1, IndexFrom(input, ":", 1) - 1), {" "})
        k == DnfNameEnd(s, Len(s))
        e == DnfVersionAt(s, k + 1)
    IN  IF k = 0 THEN ZeroPackageInfo
        ELSE PackageInfo(SubSeq(s, 1, k - 1), SubSeq(s, k + 1, e - 1), SubSeq(s, k + 1, e - 1),
                         "", SubSeq(s, e + 1, Len(s)), "", DnfPm)

\* lines of a section that are kept: trimmed, non-empty, not a heading
RECURSIVE SectionMatches(_, _, _, _)
SectionMatches(lines, i, heading, acc) ==
    IF i > Len(lines) THEN acc
    ELSE LET line == TrimSpace(lines[i])
         IN  SectionMatches(lines, i + 1, heading,
                 IF line # "" /\ ~HasPrefix(line, heading) /\ ~HasPrefix(line, "=")
                 THEN Append(acc, line) ELSE acc)

\* dnf.ParseFindOutput without the test of the exact-match flag
DnfParseFindOutputAnyMatch(m, exact, o) ==
    LET sections == Split(m, DnfBanner)
    IN  IF Len(sections) < 5 THEN Panic
        ELSE LET exactLines == SectionMatches(Split(sections[3], "\n"), 1, "Name Exactly Matched:", <<>>)
                 nameLines == SectionMatches(Split(sections[5], "\n"), 1, "Name Matched:", <<>>)
                 matches == exactLines \o nameLines
             IN  Returned([i \in 1..Len(matches) |-> parsePackageInfo(matches[i])])

\* dnf.ParseFindOutput
DnfParseFindOutput(m, exact, o) ==
    LET sections == Split(m, DnfBanner)
    IN  IF Len(sections) < 5 THEN Panic
        ELSE LET exactLines == SectionMatches(Split(sections[3], "\n"), 1, "Name Exactly Matched:", <<>>)
                 nameLines == SectionMatches(Split(sections[5], "\n"), 1, "Name Matched:", <<>>)
                 matches == IF exact THEN exactLines ELSE exactLines \o nameLines
             IN  Returned([i \in 1..Len(matches) |-> parsePackageInfo(matches[i])])

\* the parser an operation of a backend hands the captured text to
RunParser(kind, m, exact, o) ==
    IF kind = "dnf.Find" THEN DnfParseFindOutput(m, exact, o) ELSE ParseLines(kind, m, o)

(* --------------------------- apt package detail ------------------------ *)
\* strings.SplitN(line, ":", 2)
SplitN2(line) ==
    LET c == IndexFrom(line, ":", 1)
    IN  IF c = 0 THEN <<line>> ELSE <<SubSeq(line, 1, c - 1), SubSeq(line, c + 1, Len(line))>>

\* apt.ParsePackageInfoOutput: body of the loop over the lines
AptPackageInfoLine(p, line) ==
    IF Len(line) = 0 THEN p
    ELSE LET parts == SplitN2(line)
         IN  IF Len(parts) # 2 THEN p
             ELSE LET key == TrimSpace(parts[1])
                      value == TrimSpace(parts[2])
                  IN  CASE key = "Package" -> [p EXCEPT !.Name = value]
                        [] key = "Version" -> [p EXCEPT !.Version = value]
                        [] key = "Architecture" -> [p EXCEPT !.Arch = value]
                        [] key = "Section" -> [p EXCEPT !.Category = value]
                        [] OTHER -> p

RECURSIVE AptPackageInfoLoop(_, _, _)
AptPackageInfoLoop(lines, i, p) ==
    IF i > Len(lines) THEN p
    ELSE AptPackageInfoLoop(lines, i + 1, AptPackageInfoLine(p, lines[i]))

\* apt.ParsePackageInfoOutput
AptParsePackageInfoOutput(m, o) ==
    [AptPackageInfoLoop(Split(TrimSuffix(m, "\n"), "\n"), 1, ZeroPackageInfo)
        EXCEPT !.PackageManager = "apt"]

(* --------------------------- dnf package detail ------------------------ *)
\* regexp `<key>\s+:\s+(.+)` tried at position p of the line
FieldMatchAt(line, key, p) ==
    LET q == p + Len(key)
        w1 == RunLen(line, q, {" ", "\t", "\r"})
        c == q + w1
        w2 == RunLen(line, c + 1, {" ", "\t", "\r"})
        v == c + 1 + w2
    IN  [ok |-> /\ SubSeq(line, p, q - 1) = key
                /\ w1 >= 1
                /\ c <= Len(line)
                /\ At(line, c) = ":"
                /\ w2 >= 1
                /\ (v <= Len(line) \/ w2 >= 2),
         val |-> IF v <= Len(line) THEN SubSeq(line, v, Len(line))
                 ELSE SubSeq(line, Len(line), Len(line))]

\* pattern.FindStringSubmatch(line): the leftmost match
RECURSIVE FieldMatch(_, _, _)
FieldMatch(line, key, from) ==
    LET p == IndexFrom(line, key, from)
    IN  IF p = 0 THEN [ok |-> FALSE, val |-> ""]
        ELSE IF FieldMatchAt(line, key, p).ok THEN FieldMatchAt(line, key, p)
        ELSE FieldMatch(line, key, p + 1)

\* keys of the patterns map of dnf.ParsePackageInfoOutput
DnfInfoFields == {"Name", "Version", "Release", "Architecture"}

\* the orders a range over the patterns map can visit its keys in
DnfInfoOrders == {o \in [1..4 -> DnfInfoFields] : \A i, j \in 1..4 : i # j => o[i] # o[j]}

\* dnf.ParsePackageInfoOutput: one pattern tried on one line
DnfInfoField(pi, field, line) ==
    LET m == FieldMatch(line, field, 1)
    IN  IF ~m.ok THEN pi
        ELSE CASE field = "Name" -> [pi EXCEPT !.Name = m.val]
               [] field = "Version" -> [pi EXCEPT !.Version = m.val]
               [] field = "Release" -> [pi EXCEPT !.Version = pi.Version \o "-" \o m.val]
               [] field = "Architecture" -> [pi EXCEPT !.Arch = m.val]

\* the inner loop over the patterns, visited in order ord
DnfInfoLine(pi, line, ord) ==
    DnfInfoField(DnfInfoField(DnfInfoField(DnfInfoField(pi, ord[1], line),
                                           ord[2], line), ord[3], line), ord[4], line)

\* the records the outer loop can have built after line i - 1, from those of S
RECURSIVE DnfInfoLoop(_, _, _)
DnfInfoLoop(lines, i, S) ==
    IF i > Len(lines) THEN S
    ELSE DnfInfoLoop(lines, i + 1,
                     {DnfInfoLine(pi, lines[i], ord) : pi \in S, ord \in DnfInfoOrders})

\* dnf.ParsePackageInfoOutput: the records a call can return
DnfParsePackageInfoOutput(m, o) ==
    DnfInfoLoop(Split(m, "\n"), 1, {[ZeroPackageInfo EXCEPT !.PackageManager = DnfPm]})

(* ------------------------------ inputs --------------------------------- *)
\* sequences over S of length at most n
SeqsUpTo(S, n) == UNION {[1..k -> S] : k \in 0..n}

SearchBlockPool ==
    {"a/main 1.0 amd64\n  tool a",
     "b/main 2.0 all\n  tool b",
     "a/extra 1.5 i386\n  tool a again",
     "python3.10/jammy 3.10.6 amd64\n  interpreter",
     "c/main 3.0"}

SearchText(bs) == SearchPrefix \o Join(bs, "\n\n") \o "\n"

SearchInputs == {""} \cup {SearchText(bs) : bs \in SeqsUpTo(SearchBlockPool, MaxBlocks)}

\* the search texts every value of the settings argument is tried with
SearchInputsAllOpts == {""} \cup {SearchText(bs) : bs \in SeqsUpTo(SearchBlockPool, 1)}

DpkgLinePool ==
    {"a:i386 install ok installed 1.2",
     "b deinstall ok config-files 2.1",
     "b unknown ok not-installed",
     "a install ok installed",
     "dpkg-query: no packages found matching a",
     "garbage"}

\* per line of the pool: is it a "not found" message, and the name it is about
DpkgLineKind ==
    [l \in DpkgLinePool |->
        [notFound |-> HasPrefix(l, "dpkg-query: "),
         name |-> IF Len(Fields(l)) >= 2 THEN DpkgLineName(Fields(l)) ELSE ""]]

\* dpkg-query does not report a name both as not found and with a status
ConsistentLines(ls) ==
    \A i, j \in 1..Len(ls) :
        (DpkgLineKind[ls[i]].notFound /\ ~DpkgLineKind[ls[j]].notFound)
            => DpkgLineKind[ls[i]].name # DpkgLineKind[ls[j]].name

DpkgLineSeqs == {ls \in SeqsUpTo(DpkgLinePool, MaxDpkgLines) : ConsistentLines(ls)}

RunErrs == {"nil", "exit1", "exit2", "start"}

\* what an invocation of dpkg-query can hand back: a process that could not
\* be started has no output, and exit status 0 has no "not found" message
Producible(e, ls) ==
    /\ e = "start" => ls = <<>>
    /\ e = "nil" => \A i \in 1..Len(ls) : ~DpkgLineKind[ls[i]].notFound

\* text of the combined output made of the lines ls
DpkgText(ls) == IF ls = <<>> THEN "" ELSE Join(ls, "\n") \o "\n"

\* the (error, output) pairs an invocation of dpkg-query can hand back
DpkgOutcomes == {<<el[1], DpkgText(el[2])>> : el \in {x \in RunErrs \X DpkgLineSeqs : Producible(x[1], x[2])}}

OptsValues == {"nil", "quiet", "verbose"}

\* texts of at most MaxLines lines of the pool, with and without the final newline
TextsOf(pool) ==
    {""} \cup {Join(ls, "\n") \o nl : ls \in SeqsUpTo(pool, MaxLines) \ {<<>>}, nl \in {"", "\n"}}

AptInstallPool ==
    {"Setting up libssl3:amd64 (3.0.2-0ubuntu1.9) ...",
     "Setting up openssl (3.0.2-0ubuntu1.9) ...",
     "Setting up tzdata (1:2024a-0) ...",
     "Unpacking openssl (3.0.2-0ubuntu1.9) over (3.0.2-0ubuntu1.8) ...",
     ""}

DeletedPool ==
    {"Removing libssl3:amd64 (3.0.2-0ubuntu1.9) ...",
     "Removing openssl (3.0.2-0ubuntu1.9) ...",
     "Removing openssl",
     "Reading database ...",
     ""}

AptListInstalledPool ==
    {"bash 5.1-6ubuntu1",
     "libc6:amd64 2.35-0ubuntu3.1",
     "orphan",
     ""}

AptListUpgradablePool ==
    {"Listing...",
     "pkgX/release 2.0 amd64 [upgradable from: 1.0]",
     "libllvm15/jammy-updates 1:15.0.7 i386 [upgradable from: 1:15.0.6]",
     "pkgY/release 2.1 amd64",
     ""}

DnfInstallPool ==
    {"Installed Packages",
     "bash.x86_64   5.1.8-6.el9   @baseos",
     "python3.11.i686 3.11.5-1.el9 @appstream",
     "acl.x86_64",
     ""}

\* the listing of the installed packages used by TestParseInstalledOuput, its
\* column padding shortened to two spaces
DnfInstalledTranscript ==
    Join(<<
       "Installed Packages",
       "NetworkManager.x86_64  1:1.40.16-15.el8_9  @baseos",
       "NetworkManager-cloud-setup.x86_64  1:1.40.16-15.el8_9  @appstream",
       "NetworkManager-libnm.x86_64  1:1.40.16-15.el8_9  @baseos",
       "NetworkManager-team.x86_64  1:1.40.16-15.el8_9  @baseos",
       "NetworkManager-tui.x86_64  1:1.40.16-15.el8_9  @baseos",
       "acl.x86_64  2.2.53-3.el8  @baseos",
       "almalinux-release.x86_64  8.10-1.el8  @baseos",
       "amazon-ssm-agent.x86_64  3.2.1798.0-1  @System",
       "audit.x86_64  3.1.2-1.el8  @baseos",
       "audit-libs.x86_64  3.1.2-1.el8  @baseos",
       "authselect.x86_64  1.2.6-2.el8  @System",
       "authselect-libs.x86_64  1.2.6-2.el8  @System",
       "basesystem.noarch  11-5.el8  @System",
       "bash.x86_64  4.4.20-5.el8  @baseos",
       "bind-export-libs.x86_64  32:9.11.36-14.el8_10  @baseos",
       "binutils.x86_64  2.30-123.el8  @baseos",
       ""
    >>, "\n")

DnfFindPool ==
    {"gzip-1.9.0-13.x86_64 : The GNU data compression program",
     "zlib-devel-1.2.11-40.i686 : Header files",
     "Last metadata expiration check"}

\* a banner-sectioned dnf search transcript
DnfFindText(exactLines, nameLines) ==
    DnfBanner \o " Name Exactly Matched: gzip " \o DnfBanner \o "=\n"
        \o Join(exactLines, "\n") \o "\n"
        \o DnfBanner \o "==== Name Matched: gzip " \o DnfBanner \o "=====\n"
        \o Join(nameLines, "\n") \o "\n"

\* the search transcript used by TestParseFindOutputExact and TestParseFindOutput
DnfFindTranscript ==
    Repeat("=", 173) \o " Name Exactly Matched: corelight-sensor " \o Repeat("=", 174) \o "\n"
    \o Join(<<
       "corelight-sensor-27.10.0-1.x86_64 : Corelight Next-Gen Sensor",
       "corelight-sensor-27.11.0-1.x86_64 : Corelight Next-Gen Sensor",
       "corelight-sensor-27.11.1-1.x86_64 : Corelight Next-Gen Sensor",
       "corelight-sensor-27.11.2-1.x86_64 : Corelight Next-Gen Sensor",
       "corelight-sensor-27.9.0-1.x86_64 : Corelight Next-Gen Sensor",
       "corelight-sensor-27.9.1-1.x86_64 : Corelight Next-Gen Sensor",
       "corelight-sensor-27.9.2-1.x86_64 : Corelight Next-Gen Sensor"
    >>, "\n") \o "\n"
    \o Repeat("=", 177) \o " Name Matched: corelight-sensor " \o Repeat("=", 178) \o "\n"
    \o Join(<<
       "corelight-sensor-images-base-27.10.0-1.x86_64 : Corelight Next-Gen Sensor Images",
       "corelight-sensor-images-base-27.11.0-1.x86_64 : Corelight Next-Gen Sensor Images",
       "corelight-sensor-images-base-27.11.1-1.x86_64 : Corelight Next-Gen Sensor Images",
       "corelight-sensor-images-base-27.11.2-1.x86_64 : Corelight Next-Gen Sensor Images",
       "corelight-sensor-images-base-27.9.0-1.x86_64 : Corelight Next-Gen Sensor Images",
       "corelight-sensor-images-base-27.9.1-1.x86_64 : Corelight Next-Gen Sensor Images",
       "corelight-sensor-images-base-27.9.2-1.x86_64 : Corelight Next-Gen Sensor Images",
       "corelight-sensor-images-ml-27.10.0-1.x86_64 : Corelight Sensor ML Images",
       "corelight-sensor-images-ml-27.11.0-1.x86_64 : Corelight Sensor ML Images",
       "corelight-sensor-images-ml-27.11.1-1.x86_64 : Corelight Sensor ML Images",
       "corelight-sensor-images-ml-27.11.2-1.x86_64 : Corelight Sensor ML Images",
       "corelight-sensor-images-ml-27.9.0-1.x86_64 : Corelight Sensor ML Images",
       "corelight-sensor-images-ml-27.9.1-1.x86_64 : Corelight Sensor ML Images",
       "corelight-sensor-images-ml-27.9.2-1.x86_64 : Corelight Sensor ML Images",
       "corelight-sensor-images-rke2-27.10.0-1.x86_64 : Corelight Sensor RKE2 Images",
       "corelight-sensor-images-rke2-27.11.0-1.x86_64 : Corelight Sensor RKE2 Images",
       "corelight-sensor-images-rke2-27.11.1-1.x86_64 : Corelight Sensor RKE2 Images",
       "corelight-sensor-images-rke2-27.11.2-1.x86_64 : Corelight Sensor RKE2 Images",
       "corelight-sensor-images-rke2-27.9.0-1.x86_64 : Corelight Sensor RKE2 Images",
       "corelight-sensor-images-rke2-27.9.1-1.x86_64 : Corelight Sensor RKE2 Images",
       "corelight-sensor-images-rke2-27.9.2-1.x86_64 : Corelight Sensor RKE2 Images"
    >>, "\n") \o "\n"

DnfFindInputs ==
    {"", "No matches found.\n", DnfFindTranscript}
        \cup {DnfFindText(e, n) : e \in SeqsUpTo(DnfFindPool, MaxLines - 1),
                                  n \in SeqsUpTo(DnfFindPool, MaxLines - 1)}

AptPackageInfoPool ==
    {"Package: bash",
     "Version: 5.1-6ubuntu1",
     "Architecture: amd64",
     "Section: shells",
     "Priority: required",
     "Description: GNU Bourne Again SHell",
     " Version: 2 of the history file format is read as well"}

\* the package description used by TestParsePackageInfoOutput
DnfInfoTranscript ==
    Join(<<
       "Installed Packages",
       "Name         : gzip",
       "Version      : 1.9",
       "Release      : 13.el8_5",
       "Architecture : x86_64",
       "Size         : 345 k",
       "Source       : gzip-1.9-13.el8_5.src.rpm",
       "Repository   : @System",
       "Summary      : The GNU data compression program",
       "URL          : http://www.gzip.org/",
       "License      : GPLv3+ and GFDL",
       "Description  : The gzip package contains the popular GNU gzip data compression",
       "             : program. Gzipped files have a .gz extension.",
       "             : ",
       "             : Gzip should be installed on your system, because it is a",
       "             : very commonly used data compression program."
    >>, "\n") \o "\n"

DnfInfoKeyLines ==
    <<"Name         : gzip",
      "Version      : 1.9",
      "Release      : 13.el8_5",
      "Architecture : x86_64">>

DnfInfoOtherPool ==
    {"Size         : 345 k",
     "Summary      : The GNU data compression program",
     "Description  : The gzip package contains the popular GNU gzip data compression",
     "             : program. Gzipped files have a .gz extension.",
     "             : Release : 13 reads the files of every earlier one."}

\* a description block: the four key lines followed by other lines
DnfInfoText(others) == "Installed Packages\n" \o Join(DnfInfoKeyLines \o others, "\n") \o "\n"

DnfInfoInputs ==
    {DnfInfoTranscript}
        \cup {DnfInfoText(others) : others \in SeqsUpTo(DnfInfoOtherPool, MaxLines)}
        \cup TextsOf({DnfInfoKeyLines[i] : i \in 1..4})

LineOps == {"apt.Install", "apt.Deleted", "apt.ListInstalled", "apt.ListUpgradable",
            "dnf.Install", "dnf.Deleted"}

Ops == {"apt.Find", "dnf.Find", "apt.PackageInfo", "dnf.PackageInfo"} \cup LineOps

InputsOf(o) ==
    CASE o = "apt.Find" -> SearchInputs
      [] o = "dnf.Find" -> DnfFindInputs
      [] o = "apt.Install" -> TextsOf(AptInstallPool)
      [] o \in {"apt.Deleted", "dnf.Deleted"} -> TextsOf(DeletedPool)
      [] o = "apt.ListInstalled" -> TextsOf(AptListInstalledPool)
      [] o = "apt.ListUpgradable" -> TextsOf(AptListUpgradablePool)
      [] o = "dnf.Install" -> TextsOf(DnfInstallPool) \cup {DnfInstalledTranscript}
      [] o = "apt.PackageInfo" -> TextsOf(AptPackageInfoPool)
      [] o = "dnf.PackageInfo" -> DnfInfoInputs

\* the settings arguments a call is tried with
OptsOf(o, m) ==
    IF o = "apt.Find" /\ m \notin SearchInputsAllOpts THEN {"quiet"} ELSE OptsValues

(* ------------------------------ actions -------------------------------- *)
Init ==
    /\ op \in Ops
    /\ msg \in InputsOf(op)
    /\ opts \in OptsOf(op, msg)
    /\ exactMatch \in (IF op = "dnf.Find" THEN BOOLEAN ELSE {FALSE})
    /\ pc = "call"
    /\ blocks = <<>>
    /\ bi = 1
    /\ packagesDict = EmptyDict
    /\ pending0 = EmptyDict
    /\ queryCount = 0
    /\ queryArgs = {}
    /\ runErr = "nil"
    /\ out = ""
    /\ dlines = <<>>
    /\ di = 1
    /\ packagesList = <<>>
    /\ visited = {}
    /\ gpsList = <<>>
    /\ gpsErr = "none"
    /\ ret = <<>>
    /\ retErr = "none"
    /\ panicked = FALSE
    /\ pkgInfo = ZeroPackageInfo
    /\ calls = <<>>
    /\ maps = <<>>
    /\ adapterOp = "none"
    /\ cmdErr = "nil"

\* apt.ParseFindOutput, up to the split into blocks
FindStart ==
    /\ pc = "call"
    /\ op = "apt.Find"
    /\ blocks' = FindBlocks(msg)
    /\ bi' = 1
    /\ pc' = "find_loop"
    /\ UNCHANGED <<adapterOp, cmdErr, calls, maps, pkgInfo, op, msg, opts, exactMatch, packagesDict, pending0, queryCount,
                   queryArgs, runErr, out, dlines, di, packagesList, visited,
                   gpsList, gpsErr, ret, retErr, panicked>>

\* apt.ParseFindOutput, one iteration of the loop over the blocks
FindParseBlock ==
    /\ pc = "find_loop"
    /\ bi <= Len(blocks)
    /\ LET r == FindBlockStep(packagesDict, blocks[bi])
       IN  /\ packagesDict' = r.dict
           /\ panicked' = r.panic
           /\ pc' = IF r.panic THEN "panic" ELSE "find_loop"
    /\ bi' = bi + 1
    /\ UNCHANGED <<adapterOp, cmdErr, calls, maps, pkgInfo, op, msg, opts, exactMatch, blocks, pending0, queryCount,
                   queryArgs, runErr, out, dlines, di, packagesList, visited,
                   gpsList, gpsErr, ret, retErr>>

\* apt.ParseFindOutput, after the loop: return at once on an empty mapping,
\* call getPackageStatus otherwise
FindCheckEmpty ==
    /\ pc = "find_loop"
    /\ bi > Len(blocks)
    /\ IF Cardinality(DOMAIN packagesDict) = 0
       THEN /\ ret' = <<>>
            /\ retErr' = "nil"
            /\ pc' = "done"
            /\ UNCHANGED pending0
       ELSE /\ pending0' = packagesDict
            /\ pc' = "gps_exec"
            /\ UNCHANGED <<ret, retErr>>
    /\ UNCHANGED <<adapterOp, cmdErr, calls, maps, pkgInfo, op, msg, opts, exactMatch, blocks, bi, packagesDict, queryCount,
                   queryArgs, runErr, out, dlines, di, packagesList, visited,
                   gpsList, gpsErr, panicked>>

\* getPackageStatus: the early return on an empty mapping (not taken from
\* apt.ParseFindOutput), the dpkg-query invocation and the test of its error
GetPackageStatusExec ==
    /\ pc = "gps_exec"
    /\ IF Cardinality(DOMAIN packagesDict) = 0
       THEN /\ gpsList' = <<>>
            /\ gpsErr' = "nil"
            /\ pc' = "find_return"
            /\ UNCHANGED <<queryCount, queryArgs, runErr, out, dlines, di>>
       ELSE \E eo \in DpkgOutcomes :
              /\ queryCount' = queryCount + 1
              /\ queryArgs' = DpkgQueryArgs(packagesDict)
              /\ runErr' = eo[1]
              /\ out' = eo[2]
              /\ IF CommandFailed(eo[1], eo[2])
                 THEN /\ gpsList' = <<>>
                      /\ gpsErr' = "command failed"
                      /\ pc' = "find_return"
                      /\ UNCHANGED <<dlines, di>>
                 ELSE /\ dlines' = DpkgLines(eo[2])
                      /\ di' = 1
                      /\ pc' = "dpkg_loop"
                      /\ UNCHANGED <<gpsList, gpsErr>>
    /\ UNCHANGED <<adapterOp, cmdErr, calls, maps, pkgInfo, op, msg, opts, exactMatch, blocks, bi, packagesDict, pending0,
                   packagesList, visited, ret, retErr, panicked>>

\* ParseDpkgQueryOutput, one iteration of the loop over the lines
DpkgParseLine ==
    /\ pc = "dpkg_loop"
    /\ di <= Len(dlines)
    /\ LET r == DpkgLineStep(packagesList, packagesDict, dlines[di])
       IN  /\ packagesList' = r.list
           /\ packagesDict' = r.packages
    /\ di' = di + 1
    /\ UNCHANGED <<adapterOp, cmdErr, calls, maps, pkgInfo, op, msg, opts, exactMatch, pc, blocks, bi, pending0, queryCount,
                   queryArgs, runErr, out, dlines, visited, gpsList, gpsErr,
                   ret, retErr, panicked>>

\* ParseDpkgQueryOutput returns (its error is always nil)
DpkgParseReturn ==
    /\ pc = "dpkg_loop"
    /\ di > Len(dlines)
    /\ visited' = {}
    /\ pc' = "leftover"
    /\ UNCHANGED <<adapterOp, cmdErr, calls, maps, pkgInfo, op, msg, opts, exactMatch, blocks, bi, packagesDict, pending0,
                   queryCount, queryArgs, runErr, out, dlines, di, packagesList,
                   gpsList, gpsErr, ret, retErr, panicked>>

\* record appended for a package left in the mapping
LeftoverRecord(pkg) == [pkg EXCEPT !.Status = PackageStatusUnknown]

\* getPackageStatus, one iteration of the loop over the map (in map order)
LeftoverStep ==
    /\ pc = "leftover"
    /\ \E n \in DOMAIN packagesDict \ visited :
          /\ packagesList' = Append(packagesList, LeftoverRecord(packagesDict[n]))
          /\ visited' = visited \cup {n}
    /\ UNCHANGED <<adapterOp, cmdErr, calls, maps, pkgInfo, op, msg, opts, exactMatch, pc, blocks, bi, packagesDict, pending0,
                   queryCount, queryArgs, runErr, out, dlines, di, gpsList, gpsErr,
                   ret, retErr, panicked>>

GetPackageStatusReturn ==
    /\ pc = "leftover"
    /\ visited = DOMAIN packagesDict
    /\ gpsList' = packagesList
    /\ gpsErr' = "nil"
    /\ pc' = "find_return"
    /\ UNCHANGED <<adapterOp, cmdErr, calls, maps, pkgInfo, op, msg, opts, exactMatch, blocks, bi, packagesDict, pending0,
                   queryCount, queryArgs, runErr, out, dlines, di, packagesList,
                   visited, ret, retErr, panicked>>

\* apt.ParseFindOutput logs the error of getPackageStatus and returns the list;
\* the adapter pairs that list with a nil error
FindReturn ==
    /\ pc = "find_return"
    /\ ret' = gpsList
    /\ retErr' = "nil"
    /\ pc' = "done"
    /\ UNCHANGED <<adapterOp, cmdErr, calls, maps, pkgInfo, op, msg, opts, exactMatch, blocks, bi, packagesDict, pending0,
                   queryCount, queryArgs, runErr, out, dlines, di, packagesList,
                   visited, gpsList, gpsErr, panicked>>

\* a call of the parser named kind: it returns its records or panics
ParserCall(kind) ==
    /\ pc = "call"
    /\ op = kind
    /\ LET r == RunParser(kind, msg, exactMatch, opts)
       IN  /\ ret' = r.packages
           /\ panicked' = r.panic
           /\ pc' = IF r.panic THEN "panic" ELSE "done"
    /\ UNCHANGED <<adapterOp, cmdErr, calls, maps, pkgInfo, op, msg, opts, exactMatch, blocks, bi, packagesDict, pending0,
                   queryCount, queryArgs, runErr, out, dlines, di, packagesList,
                   visited, gpsList, gpsErr, retErr>>

AptParseInstallOutput == ParserCall("apt.Install")

AptParseDeletedOutput == ParserCall("apt.Deleted")

AptParseListInstalledOutput == ParserCall("apt.ListInstalled")

AptParseListUpgradableOutput == ParserCall("apt.ListUpgradable")

DnfParseInstallOutput == ParserCall("dnf.Install")

DnfParseDeletedOutput == ParserCall("dnf.Deleted")

DnfParseFind == ParserCall("dnf.Find")

\* a call of apt.ParsePackageInfoOutput: it returns one record
AptParsePackageInfo ==
    /\ pc = "call"
    /\ op = "apt.PackageInfo"
    /\ pkgInfo' = AptParsePackageInfoOutput(msg, opts)
    /\ pc' = "done"
    /\ UNCHANGED <<adapterOp, cmdErr, calls, maps, op, msg, opts, exactMatch, blocks, bi, packagesDict, pending0,
                   queryCount, queryArgs, runErr, out, dlines, di, packagesList,
                   visited, gpsList, gpsErr, ret, retErr, panicked>>

\* a call of dnf.ParsePackageInfoOutput: it returns one record; the order in
\* which the patterns map is ranged over is chosen anew on every line
DnfParsePackageInfo ==
    /\ pc = "call"
    /\ op = "dnf.PackageInfo"
    /\ pkgInfo' \in DnfParsePackageInfoOutput(msg, opts)
    /\ pc' = "done"
    /\ UNCHANGED <<adapterOp, cmdErr, calls, maps, op, msg, opts, exactMatch, blocks, bi, packagesDict, pending0,
                   queryCount, queryArgs, runErr, out, dlines, di, packagesList,
                   visited, gpsList, gpsErr, ret, retErr, panicked>>

Next ==
    \/ DnfParsePackageInfo
    \/ AptParsePackageInfo
    \/ AptParseInstallOutput
    \/ AptParseDeletedOutput
    \/ AptParseListInstalledOutput
    \/ AptParseListUpgradableOutput
    \/ DnfParseInstallOutput
    \/ DnfParseDeletedOutput
    \/ DnfParseFind
    \/ FindStart
    \/ FindParseBlock
    \/ FindCheckEmpty
    \/ GetPackageStatusExec
    \/ DpkgParseLine
    \/ DpkgParseReturn
    \/ LeftoverStep
    \/ GetPackageStatusReturn
    \/ FindReturn

Spec == Init /\ [][Next]_vars

(* ------------------- concurrent search-and-reconcile ------------------- *)
\* the calls of apt.ParseFindOutput that run at the same time
Procs == {1, 2}

\* the variables of the single call
callVars == <<op, msg, opts, exactMatch, pc, blocks, bi, packagesDict, pending0,
              queryCount, queryArgs, runErr, out, dlines, di, packagesList,
              visited, gpsList, gpsErr, ret, retErr, panicked, pkgInfo,
              adapterOp, cmdErr>>

\* a mapping shared by every call: a package-level variable
OwnerShared(p) == 1

\* the activation record that holds the pending mapping of call p: the
\* mapping is a local variable of the call
Owner(p) == p

ConcSearchInputs ==
    {SearchText(<<"a/main 1.0 amd64\n  tool a">>),
     SearchText(<<"a/extra 1.5 i386\n  tool a again", "b/main 2.0 all\n  tool b">>),
     SearchText(<<"c/main 3.0">>)}

\* the answers of dpkg-query the concurrent calls are tried with
ConcOutcomes ==
    {<<"nil", "a:i386 install ok installed 1.2\nb deinstall ok config-files 2.1\n">>,
     <<"exit1", "dpkg-query: no packages found matching a\n">>,
     <<"exit2", "">>,
     <<"start", "">>}

\* a call before its first step
NewCall(m, eo) ==
    [msg |-> m, runErr |-> eo[1], out |-> eo[2], pc |-> "call", blocks |-> <<>>, bi |-> 1,
     dlines |-> <<>>, di |-> 1, packagesList |-> <<>>, visited |-> {}, ret |-> <<>>]

InitConc ==
    /\ calls \in [Procs -> {NewCall(m, eo) : m \in ConcSearchInputs, eo \in ConcOutcomes}]
    /\ maps = [p \in Procs |-> EmptyDict]
    /\ op = "apt.Find"
    /\ msg = ""
    /\ opts = "quiet"
    /\ exactMatch = FALSE
    /\ pc = "done"
    /\ blocks = <<>>
    /\ bi = 1
    /\ packagesDict = EmptyDict
    /\ pending0 = EmptyDict
    /\ queryCount = 0
    /\ queryArgs = {}
    /\ runErr = "nil"
    /\ out = ""
    /\ dlines = <<>>
    /\ di = 1
    /\ packagesList = <<>>
    /\ visited = {}
    /\ gpsList = <<>>
    /\ gpsErr = "none"
    /\ ret = <<>>
    /\ retErr = "none"
    /\ panicked = FALSE
    /\ pkgInfo = ZeroPackageInfo
    /\ adapterOp = "none"
    /\ cmdErr = "nil"

\* apt.ParseFindOutput of call p: the mapping is made and the text is split
ConcFindStart(p) ==
    /\ calls[p].pc = "call"
    /\ calls' = [calls EXCEPT ![p].blocks = FindBlocks(calls[p].msg),
                              ![p].bi = 1,
                              ![p].pc = "find_loop"]
    /\ maps' = [maps EXCEPT ![Owner(p)] = EmptyDict]
    /\ UNCHANGED callVars

\* one iteration of the loop over the blocks
ConcFindParseBlock(p) ==
    /\ calls[p].pc = "find_loop"
    /\ calls[p].bi <= Len(calls[p].blocks)
    /\ LET r == FindBlockStep(maps[Owner(p)], calls[p].blocks[calls[p].bi])
       IN  /\ maps' = [maps EXCEPT ![Owner(p)] = r.dict]
           /\ calls' = [calls EXCEPT ![p].bi = @ + 1,
                                     ![p].pc = IF r.panic THEN "panic" ELSE "find_loop"]
    /\ UNCHANGED callVars

\* after the loop: return on an empty mapping; otherwise getPackageStatus
\* runs dpkg-query and tests its error
ConcGetPackageStatusExec(p) ==
    /\ calls[p].pc = "find_loop"
    /\ calls[p].bi > Len(calls[p].blocks)
    /\ calls' = [calls EXCEPT
                   ![p].pc = IF \/ Cardinality(DOMAIN maps[Owner(p)]) = 0
                                \/ CommandFailed(calls[p].runErr, calls[p].out)
                             THEN "done" ELSE "dpkg_loop",
                   ![p].dlines = DpkgLines(calls[p].out),
                   ![p].di = 1]
    /\ UNCHANGED <<maps, callVars>>

\* ParseDpkgQueryOutput, one iteration of the loop over the lines
ConcDpkgParseLine(p) ==
    /\ calls[p].pc = "dpkg_loop"
    /\ calls[p].di <= Len(calls[p].dlines)
    /\ LET r == DpkgLineStep(calls[p].packagesList, maps[Owner(p)], calls[p].dlines[calls[p].di])
       IN  /\ calls' = [calls EXCEPT ![p].packagesList = r.list, ![p].di = @ + 1]
           /\ maps' = [maps EXCEPT ![Owner(p)] = r.packages]
    /\ UNCHANGED callVars

ConcDpkgParseReturn(p) ==
    /\ calls[p].pc = "dpkg_loop"
    /\ calls[p].di > Len(calls[p].dlines)
    /\ calls' = [calls EXCEPT ![p].pc = "leftover", ![p].visited = {}]
    /\ UNCHANGED <<maps, callVars>>

\* getPackageStatus, one iteration of the loop over the map
ConcLeftoverStep(p) ==
    /\ calls[p].pc = "leftover"
    /\ \E n \in DOMAIN maps[Owner(p)] \ calls[p].visited :
          calls' = [calls EXCEPT
                      ![p].packagesList = Append(@, LeftoverRecord(maps[Owner(p)][n])),
                      ![p].visited = @ \cup {n}]
    /\ UNCHANGED <<maps, callVars>>

\* getPackageStatus and apt.ParseFindOutput return the list
ConcFindReturn(p) ==
    /\ calls[p].pc = "leftover"
    /\ DOMAIN maps[Owner(p)] \subseteq calls[p].visited
    /\ calls' = [calls EXCEPT ![p].ret = calls[p].packagesList, ![p].pc = "done"]
    /\ UNCHANGED <<maps, callVars>>

NextConc ==
    \E p \in Procs :
        \/ ConcFindStart(p)
        \/ ConcFindParseBlock(p)
        \/ ConcGetPackageStatusExec(p)
        \/ ConcDpkgParseLine(p)
        \/ ConcDpkgParseReturn(p)
        \/ ConcLeftoverStep(p)
        \/ ConcFindReturn(p)

SpecConc == InitConc /\ [][NextConc]_vars

(* ------------------------------ adapters ------------------------------- *)
\* the transcript of a dnf upgrade used by TestParseUpgradeOutput, its rules
\* and its column padding shortened
DnfUpgradeTranscript ==
    Join(<<
       "Last metadata expiration check: 0:02:47 ago on Wed 26 Jun 2024 07:37:36 PM UTC.",
       "Dependencies resolved.",
       "========",
       " Package  Architecture  Version  Repository  Size",
       "========",
       "Upgrading:",
       " corelight-selinux  noarch  27.11.1-1.el8  corelight_corelightctl  21 k",
       " corelightctl  x86_64  27.11.1-1  corelight_corelightctl  155 M",
       "",
       "Transaction Summary",
       "========",
       "Upgrade  2 Packages",
       "",
       "Total download size: 155 M",
       "Is this ok [y/N]: y",
       "Downloading Packages:",
       "(1/2): corelight-selinux-27.11.1-1.el8.noarch.rpm  34 kB/s |  21 kB  00:00  ",
       "(2/2): corelightctl-27.11.1-1.x86_64.rpm  22 MB/s | 155 MB  00:07  ",
       "--------",
       "Total  22 MB/s | 155 MB  00:07  ",
       "Running transaction check",
       "Transaction check succeeded.",
       "Running transaction test",
       "Transaction test succeeded.",
       "Running transaction",
       "  Preparing  :  1/1 ",
       "  Running scriptlet: corelight-selinux-27.11.1-1.el8.noarch  1/4 ",
       "  Upgrading  : corelight-selinux-27.11.1-1.el8.noarch  1/4 ",
       "  Running scriptlet: corelight-selinux-27.11.1-1.el8.noarch  1/4 ",
       "restorecon: lstat(/etc/iscsi) failed: No such file or directory",
       "",
       "  Upgrading  : corelightctl-27.11.1-1.x86_64  2/4 ",
       "  Cleanup  : corelightctl-27.11.0-1.x86_64  3/4 ",
       "  Cleanup  : corelight-selinux-27.11.0-1.el8.noarch  4/4 ",
       "  Running scriptlet: corelight-selinux-27.11.0-1.el8.noarch  4/4 ",
       "  Running scriptlet: corelight-selinux-27.11.1-1.el8.noarch  4/4 ",
       "  Verifying  : corelight-selinux-27.11.1-1.el8.noarch  1/4 ",
       "  Verifying  : corelight-selinux-27.11.0-1.el8.noarch  2/4 ",
       "  Verifying  : corelightctl-27.11.1-1.x86_64  3/4 ",
       "  Verifying  : corelightctl-27.11.0-1.x86_64  4/4 ",
       "",
       "Upgraded:",
       "  corelight-selinux-27.11.1-1.el8.noarch  corelightctl-27.11.1-1.x86_64  ",
       "",
       "Complete!",
       "[ec2-user@ip-10-0-2-124 ~]$ sudo dnf list install corelightctl",
       "Last metadata expiration check: 0:03:29 ago on Wed 26 Jun 2024 07:37:36 PM UTC.",
       "Installed Packages",
       "corelightctl.x86_64  27.11.1-1  @corelight_corelightctl",
       "Available Packages",
       "corelightctl.x86_64 "
    >>, "\n")

\* a dnf transaction transcript: the packages of the transaction, then the
\* lines that follow the transaction
DnfTransactionText(verb, pkgs, after) ==
    Join(<<"Dependencies resolved.", verb \o ":">>
         \o [i \in 1..Len(pkgs) |-> " " \o pkgs[i] \o "  x86_64  27.11.1-1  corelight  21 k"]
         \o <<"", "Transaction Summary", "Running transaction">>
         \o [i \in 1..Len(pkgs) |-> "  " \o verb \o "  : " \o pkgs[i] \o "-27.11.1-1.x86_64  1/2 "]
         \o <<"", "Complete!">> \o after, "\n") \o "\n"

DnfTransactionInputs(verb) ==
    {DnfTransactionText(verb, pkgs, after) :
        pkgs \in {<<"corelightctl">>, <<"corelight-selinux", "corelightctl">>},
        after \in {<<>>, <<"Installed Packages", "corelightctl.x86_64  27.11.1-1  @corelight">>}}

\* the operations of the two adapters that return record sequences
AdapterOps == {"apt.Install", "apt.Uninstall", "apt.Search", "apt.ListInstalled", "apt.Upgrade",
               "dnf.Install", "dnf.Delete", "dnf.Find", "dnf.ListInstalled", "dnf.Upgrade"}

\* the parser an adapter operation hands the captured text to
AdapterParser(a) ==
    CASE a \in {"apt.Install", "apt.Uninstall", "apt.Upgrade"} -> "apt.Install"
      [] a = "apt.Search" -> "apt.Find"
      [] a = "apt.ListInstalled" -> "apt.ListInstalled"
      [] a \in {"dnf.Install", "dnf.ListInstalled", "dnf.Upgrade"} -> "dnf.Install"
      [] a = "dnf.Delete" -> "dnf.Deleted"
      [] a = "dnf.Find" -> "dnf.Find"

\* the operations that put default settings in the place of a nil argument
AdapterDefaultsOpts(a) ==
    a \in {"apt.Install", "apt.Uninstall", "apt.Upgrade", "dnf.Install", "dnf.Delete", "dnf.Upgrade"}

\* texts the command of an adapter operation can print
AdapterOutputs(a) ==
    CASE a \in {"apt.Install", "apt.Upgrade"} -> TextsOf(AptInstallPool)
      [] a \in {"apt.Uninstall", "dnf.Delete"} -> TextsOf(DeletedPool)
      [] a = "apt.Search" -> SearchInputs
      [] a = "apt.ListInstalled" -> TextsOf(AptListInstalledPool)
      [] a = "dnf.Install" -> DnfTransactionInputs("Installing")
      [] a = "dnf.Upgrade" -> DnfTransactionInputs("Upgrading") \cup {DnfUpgradeTranscript}
      [] a = "dnf.ListInstalled" -> TextsOf(DnfInstallPool) \cup {DnfInstalledTranscript}
      [] a = "dnf.Find" -> DnfFindInputs

InitAdapter ==
    /\ adapterOp \in AdapterOps
    /\ cmdErr \in {"nil", "exit1"}
    /\ msg \in AdapterOutputs(adapterOp)
    /\ opts \in OptsOf(AdapterParser(adapterOp), msg)
    /\ op = "none"
    /\ exactMatch = FALSE
    /\ pc = "adapter"
    /\ blocks = <<>>
    /\ bi = 1
    /\ packagesDict = EmptyDict
    /\ pending0 = EmptyDict
    /\ queryCount = 0
    /\ queryArgs = {}
    /\ runErr = "nil"
    /\ out = ""
    /\ dlines = <<>>
    /\ di = 1
    /\ packagesList = <<>>
    /\ visited = {}
    /\ gpsList = <<>>
    /\ gpsErr = "none"
    /\ ret = <<>>
    /\ retErr = "none"
    /\ panicked = FALSE
    /\ pkgInfo = ZeroPackageInfo
    /\ calls = <<>>
    /\ maps = <<>>

\* an adapter operation up to the call of its parser: the command is run; its
\* failure is returned at once, its output is handed to the parser otherwise
AdapterCall ==
    /\ pc = "adapter"
    /\ IF cmdErr # "nil"
       THEN /\ retErr' = "transport"
            /\ pc' = "done"
            /\ UNCHANGED <<op, opts, exactMatch>>
       ELSE /\ op' = AdapterParser(adapterOp)
            /\ opts' = IF opts = "nil" /\ AdapterDefaultsOpts(adapterOp) THEN "quiet" ELSE opts
            /\ exactMatch' = (adapterOp = "dnf.Find")
            /\ pc' = "call"
            /\ UNCHANGED retErr
    /\ UNCHANGED <<msg, blocks, bi, packagesDict, pending0, queryCount, queryArgs, runErr,
                   out, dlines, di, packagesList, visited, gpsList, gpsErr, ret, panicked,
                   pkgInfo, calls, maps, adapterOp, cmdErr>>

NextAdapter ==
    \/ AdapterCall
    \/ AptParseInstallOutput
    \/ AptParseListInstalledOutput
    \/ DnfParseInstallOutput
    \/ DnfParseDeletedOutput
    \/ DnfParseFind
    \/ FindStart
    \/ FindParseBlock
    \/ FindCheckEmpty
    \/ GetPackageStatusExec
    \/ DpkgParseLine
    \/ DpkgParseReturn
    \/ LeftoverStep
    \/ GetPackageStatusReturn
    \/ FindReturn

SpecAdapter == InitAdapter /\ [][NextAdapter]_vars

(* ------------------------------ claims --------------------------------- *)
\* getPackageStatus has returned a record list to apt.ParseFindOutput
Reconciled == gpsErr = "nil"

\* line i of the dpkg-query output is a status line about name n
DataLineFor(n) ==
    \E i \in 1..Len(dlines) :
        /\ ~HasPrefix(dlines[i], "dpkg-query: ")
        /\ Len(Fields(dlines[i])) >= 2
        /\ DpkgLineName(Fields(dlines[i])) = n

\* indices of the records of list l named n
IndicesOf(l, n) == {i \in 1..Len(l) : l[i].Name = n}

\* C1: a reconciliation of N pending names returns exactly N records,
\* whatever the dpkg-query output mentions.
C1_ExactlyNRecords ==
    Reconciled => Len(gpsList) = Cardinality(DOMAIN pending0)

\* C2: after a reconciliation no name occurs in two records of the result and
\* every key of the search mapping names exactly one record.
C2_NamesOnce ==
    Reconciled =>
        /\ \A i, j \in 1..Len(gpsList) : i # j => gpsList[i].Name # gpsList[j].Name
        /\ \A n \in DOMAIN pending0 : Cardinality(IndicesOf(gpsList, n)) = 1

\* C3: a pending name that dpkg-query did not find (absent from the output or
\* named by a "no packages found matching" line) ends with status unknown and
\* its search-derived version, candidate version, category and architecture.
C3_NotFoundKeepsSearchFields ==
    Reconciled =>
        \A n \in DOMAIN pending0 :
            ~DataLineFor(n) =>
                \E i \in 1..Len(gpsList) :
                    gpsList[i] = [pending0[n] EXCEPT !.Status = PackageStatusUnknown]

\* C4: a dpkg-query line that names a pending package replaces the version of
\* its record only by a non-empty version; without one the record keeps the
\* search-derived version, in every branch of the merge.
C4_EmptyVersionKeepsSearchVersion ==
    [][(/\ pc = "dpkg_loop"
        /\ di <= Len(dlines)
        /\ Len(Fields(dlines[di])) >= 2
        /\ DpkgLineName(Fields(dlines[di])) \in DOMAIN packagesDict)
       => LET parts == Fields(dlines[di])
              pkg == packagesDict[DpkgLineName(parts)]
              rec == packagesList'[Len(packagesList')]
          IN  /\ Len(packagesList') = Len(packagesList) + 1
              /\ rec.Name = pkg.Name
              /\ rec.Version = IF StartsWithDigit(parts[Len(parts)])
                               THEN parts[Len(parts)] ELSE pkg.Version]_vars

\* C5: a dpkg-query invocation that fails for another reason than exit status
\* 1 makes getPackageStatus return an error and no records, and the search
\* reports the failure to its caller.
C5_TransportFailureAborts ==
    (pc = "done" /\ queryCount = 1 /\ runErr \in {"exit2", "start"}) =>
        /\ gpsErr \notin {"nil", "none"}
        /\ gpsList = <<>>
        /\ packagesList = <<>>
        /\ ret = <<>>
        /\ retErr \notin {"nil", "none"}

\* C6: a successful dpkg-query whose non-empty output has no line that can be
\* cut into a (name, status, version) triple makes the reconciliation fail; it
\* does not return the pending packages marked unknown.
C6_MalformedOutputFails ==
    (/\ pc = "done"
     /\ queryCount = 1
     /\ runErr = "nil"
     /\ out # ""
     /\ \A i \in 1..Len(dlines) : Len(Fields(dlines[i])) < 2) =>
        gpsErr \notin {"nil", "none"}

\* names of the packages the search output yields
HeaderNames(m) ==
    LET bs == FindBlocks(m)
    IN  {Split(Fields(bs[i])[1], "/")[1] : i \in {k \in 1..Len(bs) : FindHeaderMatch(bs[k])}}

\* C7: one search parse runs dpkg-query once when the search output yields a
\* package and never otherwise; the one invocation names every pending
\* package, comes after the last search block and before the first record.
C7_OneBatchedQuery ==
    op = "apt.Find" =>
        /\ queryCount <= 1
        /\ queryCount = 1 => /\ bi > Len(blocks)
                             /\ queryArgs = DOMAIN pending0
        /\ (pc = "gps_exec" \/ queryCount = 0) =>
               (packagesList = <<>> /\ gpsList = <<>> /\ ret = <<>>)
        /\ pc = "done" => /\ queryCount = (IF HeaderNames(msg) # {} THEN 1 ELSE 0)
                          /\ queryArgs = HeaderNames(msg)

C7_Witness ==
    /\ pc = "done"
    /\ queryCount = 1
    /\ Cardinality(queryArgs) = 2
    /\ Len(ret) = 2

\* the dpkg-query invocation ended with an answer that can be used
UsableAnswer ==
    /\ runErr # "start"
    /\ runErr # "nil" => \E i \in 1..Len(dlines) : Len(Fields(dlines[i])) >= 2

\* C8: a record of the result has status unknown only when dpkg-query ran to
\* a usable answer that does not contain the package, never because the
\* invocation failed.
C8_UnknownOnlyWhenNotFound ==
    Reconciled =>
        \A i \in 1..Len(gpsList) :
            gpsList[i].Status = PackageStatusUnknown =>
                /\ UsableAnswer
                /\ gpsList[i].Name # "" => ~DataLineFor(gpsList[i].Name)

\* the units a parser looks at: blocks for the apt search, lines otherwise
UnitsOf(o, m) ==
    IF o = "apt.Find" THEN FindBlocks(m)
    ELSE IF o = "dnf.Find" THEN Split(m, "\n")
    ELSE LinesOf(o, m)

\* the unit has the shape the parser of operation o looks for
HasShape(o, u) ==
    CASE o = "apt.Find" -> FindHeaderMatch(u)
      [] o = "dnf.Find" -> DnfNameEnd(TrimSpace(u), Len(TrimSpace(u))) # 0
      [] o = "apt.Install" -> Contains(u, "Setting up ")
      [] o \in {"apt.Deleted", "dnf.Deleted"} -> HasPrefix(u, "Removing")
      [] o = "apt.ListInstalled" -> Len(Fields(u)) >= 1
      [] o = "apt.ListUpgradable" -> Contains(u, "/")
      [] o = "dnf.Install" -> Contains(u, "@")
      [] o \in {"apt.PackageInfo", "dnf.PackageInfo"} -> Contains(u, ":")

NoMatchingLine(o, m) == \A i \in 1..Len(UnitsOf(o, m)) : ~HasShape(o, UnitsOf(o, m)[i])

\* C9: on the empty input and on every text without a line of the expected
\* shape, every parser returns an empty record sequence and does not fail
\* (stated here for the calls that pass a settings object).
C9_NoMatchGivesEmpty ==
    (pc \in {"done", "panic"} /\ opts # "nil" /\ NoMatchingLine(op, msg)) =>
        (pc = "done" /\ ~panicked /\ ret = <<>>)

\* the unit matches the expected shape only in part
PartialMatch(o, u) ==
    CASE o = "apt.Find" -> FindHeaderMatch(u) /\ Len(Fields(u)) < 3
      [] o \in {"apt.Deleted", "dnf.Deleted"} -> HasPrefix(u, "Removing") /\ Len(Fields(u)) < 3
      [] o = "apt.ListInstalled" -> Len(Fields(u)) = 1
      [] o = "apt.ListUpgradable" ->
            ~HasPrefix(u, "Listing...") /\ Len(Fields(u)) >= 1 /\ Len(Fields(u)) < 6
      [] OTHER -> FALSE

RemoveAt(q, i) == SubSeq(q, 1, i - 1) \o SubSeq(q, i + 1, Len(q))

\* the mapping the apt search builds from a sequence of blocks
RECURSIVE FindDict(_, _, _)
FindDict(bs, i, dict) ==
    IF i > Len(bs) THEN dict ELSE FindDict(bs, i + 1, FindBlockStep(dict, bs[i]).dict)

\* C10: a partially matching line is skipped without failure and the records
\* of the other lines are those produced when the partial line is absent
\* (stated here for the calls that pass a settings object).
C10_PartialLineSkipped ==
    \A i \in 1..Len(UnitsOf(op, msg)) :
        (pc # "call" /\ opts # "nil" /\ PartialMatch(op, UnitsOf(op, msg)[i])) =>
            /\ ~panicked
            /\ (pc = "done" /\ op \in LineOps) =>
                   ret = ParseLoop(op, RemoveAt(LinesOf(op, msg), i), 1, opts, <<>>).packages
            /\ (pc = "gps_exec" /\ op = "apt.Find") =>
                   packagesDict = FindDict(RemoveAt(blocks, i), 1, EmptyDict)

\* C11: no record with an empty name is present in the sequence returned by
\* a list-returning parser or by the reconciliation.
C11_NoEmptyName ==
    /\ pc = "done" => \A i \in 1..Len(ret) : ret[i].Name # ""
    /\ Reconciled => \A i \in 1..Len(gpsList) : gpsList[i].Name # ""

\* the records of the lines of the given shape, in line order
RecordsOfShape(lines, Shape(_), Rec(_)) ==
    LET good == SelectSeq(lines, Shape)
    IN  [i \in 1..Len(good) |-> Rec(good[i])]

\* text of t before its first ":" and after it
BeforeColon(t) == IF IndexFrom(t, ":", 1) = 0 THEN t ELSE SubSeq(t, 1, IndexFrom(t, ":", 1) - 1)

AfterColon(t) == IF IndexFrom(t, ":", 1) = 0 THEN "" ELSE SubSeq(t, IndexFrom(t, ":", 1) + 1, Len(t))

\* a line "Setting up <pkg>[:<arch>] (<ver>) ..."
SettingUpShape(line) ==
    LET p == Fields(line)
    IN  /\ HasPrefix(line, "Setting up ")
        /\ Len(p) >= 4
        /\ BeforeColon(p[3]) # ""
        /\ Len(p[4]) > 2 /\ HasPrefix(p[4], "(") /\ HasSuffix(p[4], ")")

SettingUpRecord(line) ==
    LET p == Fields(line)
        ver == SubSeq(p[4], 2, Len(p[4]) - 1)
    IN  PackageInfo(BeforeColon(p[3]), ver, ver, "", AfterColon(p[3]),
                    PackageStatusInstalled, AptPm)

\* C12: the apt install parser returns, in input order, exactly one record per
\* line "Setting up <pkg>[:<arch>] (<ver>) ...": name pkg, architecture arch,
\* version and candidate version ver verbatim (epoch prefix included), status
\* installed (stated for the calls that pass a settings object).
C12_SettingUpRecords ==
    (op = "apt.Install" /\ pc \in {"done", "panic"} /\ opts # "nil") =>
        /\ pc = "done"
        /\ ret = RecordsOfShape(Split(msg, "\n"), SettingUpShape, SettingUpRecord)

\* C13: every record returned by an install-output parser, apt or dnf, has
\* status installed.
C13_InstallStatusInstalled ==
    (pc = "done" /\ op \in {"apt.Install", "dnf.Install"}) =>
        \A i \in 1..Len(ret) : ret[i].Status = PackageStatusInstalled

\* position of the last "." of token t, 0 when it has none
LastDot(t) ==
    IF \E k \in 1..Len(t) : At(t, k) = "."
    THEN CHOOSE k \in 1..Len(t) : At(t, k) = "." /\ \A j \in (k + 1)..Len(t) : At(t, j) # "."
    ELSE 0

\* a line "name.arch <ws> version <ws> @repo"
DnfListShape(line) ==
    LET p == Fields(line)
    IN  /\ line # ""
        /\ ~IsSpace(At(line, 1))
        /\ Len(p) >= 3
        /\ LastDot(p[1]) > 1 /\ LastDot(p[1]) < Len(p[1])
        /\ HasPrefix(p[3], "@") /\ Len(p[3]) > 1

\* name, architecture, version and category the line stands for
DnfListColumns(line) ==
    LET p == Fields(line)
    IN  [Name |-> SubSeq(p[1], 1, LastDot(p[1]) - 1),
         Arch |-> SubSeq(p[1], LastDot(p[1]) + 1, Len(p[1])),
         Version |-> p[2],
         Category |-> SubSeq(p[3], 2, Len(p[3]))]

UpgradableShape(line) ==
    LET p == Fields(line)
    IN  /\ Len(p) = 6
        /\ Contains(p[1], "/")
        /\ p[4] = "[upgradable" /\ p[5] = "from:"
        /\ HasSuffix(p[6], "]")

UpgradableRecord(line) ==
    LET p == Fields(line)
        slash == IndexFrom(p[1], "/", 1)
    IN  PackageInfo(SubSeq(p[1], 1, slash - 1),
                    SubSeq(p[6], 1, Len(p[6]) - 1),
                    p[2],
                    SubSeq(p[1], slash + 1, Len(p[1])),
                    p[3],
                    PackageStatusUpgradable, AptPm)

\* the line is one of the three kinds a list-upgradable output is made of
UpgradableKnown(line) == UpgradableShape(line) \/ HasPrefix(line, "Listing...") \/ line = ""

\* C15: every list-upgradable line "name/category newver arch [upgradable
\* from: oldver]" yields one record (name, category, architecture, candidate
\* version newver, version oldver without the trailing "]", status
\* upgradable); the "Listing..." header and empty lines yield none.
C15_UpgradableRecords ==
    (op = "apt.ListUpgradable" /\ pc \in {"done", "panic"}) =>
        LET lines == Split(msg, "\n")
            want == RecordsOfShape(lines, UpgradableShape, UpgradableRecord)
        IN  /\ want # <<>> => pc = "done"
            /\ (\A i \in 1..Len(lines) : UpgradableKnown(lines[i])) => ret = want

\* a search block: a "name/category version arch" header and a description line
SearchBlockShape(b) ==
    LET ls == Split(b, "\n")
    IN  /\ Len(ls) = 2
        /\ Len(Fields(ls[1])) = 3
        /\ ~IsSpace(At(ls[1], 1))
        /\ IndexFrom(Fields(ls[1])[1], "/", 1) > 1
        /\ IndexFrom(Fields(ls[1])[1], "/", 1) < Len(Fields(ls[1])[1])
        /\ Len(Fields(ls[2])) >= 1

\* the record the header of block b stands for
SearchHeaderRecord(b) ==
    LET h == Fields(Split(b, "\n")[1])
        slash == IndexFrom(h[1], "/", 1)
    IN  PackageInfo(SubSeq(h[1], 1, slash - 1), h[2], h[2],
                    SubSeq(h[1], slash + 1, Len(h[1])), h[3], "", AptPm)

\* one record per distinct name of the blocks, the last block of a name wins
ExpectedPending(bs) ==
    LET names == {SearchHeaderRecord(bs[i]).Name : i \in 1..Len(bs)}
        last(n) == CHOOSE i \in 1..Len(bs) :
                       /\ SearchHeaderRecord(bs[i]).Name = n
                       /\ \A j \in (i + 1)..Len(bs) : SearchHeaderRecord(bs[j]).Name # n
    IN  [n \in names |-> SearchHeaderRecord(bs[last(n)])]

\* C16: for a search output made of blank-line separated blocks, each a
\* "name/category version arch" header followed by a description line, the
\* search parser builds exactly one pending record per distinct package name
\* (the last block of a name wins), with name, category, version and
\* architecture of the header only.
C16_PendingFromHeaders ==
    (/\ op = "apt.Find"
     /\ pc \in {"find_loop", "gps_exec"}
     /\ bi > Len(blocks)
     /\ \A i \in 1..Len(blocks) : SearchBlockShape(blocks[i])) =>
        packagesDict = ExpectedPending(blocks)

\* indices of the lines of ls that hold the heading h
HeadingLines(ls, h) == {i \in 1..Len(ls) : Contains(ls[i], h)}

\* the text has one "Name Exactly Matched" banner line followed by one "Name
\* Matched" banner line
BannerSectioned(m) ==
    LET ls == Split(m, "\n")
    IN  /\ Cardinality(HeadingLines(ls, " Name Exactly Matched: ")) = 1
        /\ Cardinality(HeadingLines(ls, " Name Matched: ")) = 1
        /\ \A i \in HeadingLines(ls, " Name Exactly Matched: ") :
               \A j \in HeadingLines(ls, " Name Matched: ") :
                   /\ i < j
                   /\ HasPrefix(ls[i], DnfBanner) /\ HasSuffix(ls[i], DnfBanner)
                   /\ HasPrefix(ls[j], DnfBanner) /\ HasSuffix(ls[j], DnfBanner)

\* a line of a section that counts: not empty and not a banner
SectionLine(l) == TrimSpace(l) # "" /\ ~Contains(l, "=====")

\* the counted lines of the two sections of a banner-sectioned text
SectionsOf(m) ==
    LET ls == Split(m, "\n")
        e == CHOOSE i \in HeadingLines(ls, " Name Exactly Matched: ") : TRUE
        n == CHOOSE j \in HeadingLines(ls, " Name Matched: ") : TRUE
    IN  [exact |-> SelectSeq(SubSeq(ls, e + 1, n - 1), SectionLine),
         names |-> SelectSeq(SubSeq(ls, n + 1, Len(ls)), SectionLine)]

\* C17: on a banner-sectioned dnf search output, ParseFindOutput with the
\* exact flag set returns one record per non-empty, non-banner line of the
\* "Name Exactly Matched" section and none from "Name Matched"; with the flag
\* cleared it returns these records followed by one per line of "Name
\* Matched" (7 and 28 records for the transcript of 7 and 21 lines).
C17_SectionsByFlag ==
    (op = "dnf.Find" /\ pc \in {"done", "panic"} /\ BannerSectioned(msg)) =>
        LET sec == SectionsOf(msg)
            lines == IF exactMatch THEN sec.exact ELSE sec.exact \o sec.names
        IN  /\ pc = "done"
            /\ ret = [i \in 1..Len(lines) |-> parsePackageInfo(TrimSpace(lines[i]))]
            /\ msg = DnfFindTranscript => Len(ret) = (IF exactMatch THEN 7 ELSE 28)

C17_Witness ==
    /\ op = "dnf.Find"
    /\ pc = "done"
    /\ msg = DnfFindTranscript
    /\ exactMatch
    /\ Len(SectionsOf(msg).names) = 21
    /\ Len(ret) = 7
    /\ ret[7].Name = "corelight-sensor"

\* a line of a remove output that begins with the keyword
RemovingShape(line) == HasPrefix(line, "Removing")

\* the line has the fields the record is made of
RemovingComplete(line) == Len(Fields(line)) >= 3

RECURSIVE StripParens(_)
StripParens(t) ==
    IF t # "" /\ At(t, 1) \in {"(", ")"} THEN StripParens(SubSeq(t, 2, Len(t)))
    ELSE IF t # "" /\ At(t, Len(t)) \in {"(", ")"} THEN StripParens(SubSeq(t, 1, Len(t) - 1))
    ELSE t

RemovingRecord(line) ==
    LET p == Fields(line)
    IN  PackageInfo(BeforeColon(p[2]), StripParens(p[3]), "", "", AfterColon(p[2]),
                    PackageStatusAvailable, IF op = "apt.Deleted" THEN AptPm ELSE DnfPm)

\* C18: the remove-output parser yields a record exactly for the lines that
\* begin with "Removing": name and architecture from the second field (split
\* at the colon), version from the third field without its parentheses,
\* candidate version and category empty, status available; other lines yield
\* no record (stated for the calls that pass a settings object).
C18_RemovingRecords ==
    (op \in {"apt.Deleted", "dnf.Deleted"} /\ pc \in {"done", "panic"} /\ opts # "nil") =>
        LET lines == Split(msg, "\n")
            removing == SelectSeq(lines, RemovingShape)
        IN  /\ pc = "done"
            /\ Len(ret) = Len(removing)
            /\ (\A i \in 1..Len(removing) : RemovingComplete(removing[i])) =>
                   ret = [i \in 1..Len(removing) |-> RemovingRecord(removing[i])]

\* a non-empty line "name[:arch] version"
InstalledShape(line) == Len(Fields(line)) >= 2

InstalledRecord(line) ==
    LET p == Fields(line)
    IN  PackageInfo(BeforeColon(p[1]), p[2], "", "", AfterColon(p[1]),
                    PackageStatusInstalled, AptPm)

\* the text with its final newline removed, or added when it has none
ToggleFinalNewline(m) == IF HasSuffix(m, "\n") THEN SubSeq(m, 1, Len(m) - 1) ELSE m \o "\n"

\* C19: the list-installed parser yields one record per non-empty
\* "name[:arch] version" line, in input order, with status installed, the
\* version verbatim and "name:arch" split at the colon; one trailing newline
\* is ignored, so the text with and without it gives the same records.
C19_InstalledRecords ==
    (op = "apt.ListInstalled" /\ pc \in {"done", "panic"}) =>
        LET lines == Split(msg, "\n")
            want == RecordsOfShape(lines, InstalledShape, InstalledRecord)
        IN  /\ want # <<>> => pc = "done"
            /\ (\A i \in 1..Len(lines) : lines[i] = "" \/ InstalledShape(lines[i])) =>
                   /\ ret = want
                   /\ ret = ParseLines(op, ToggleFinalNewline(msg), opts).packages

\* a continuation line of a package description starts with whitespace
Continuation(line) == line # "" /\ IsSpace(At(line, 1))

\* value of the last line of ls whose key, the text before its first colon,
\* is k; empty when there is none
LastValueOf(ls, k) ==
    LET at == {i \in 1..Len(ls) :
                   /\ ~Continuation(ls[i])
                   /\ Contains(ls[i], ":")
                   /\ BeforeColon(ls[i]) = k}
    IN  IF at = {} THEN ""
        ELSE TrimSpace(AfterColon(ls[CHOOSE i \in at : \A j \in at : j <= i]))

\* C20: in the apt package-detail parser only a line whose key is Package,
\* Version, Architecture or Section sets the field of that key, another key
\* leaves the record as it is, and a continuation line is never read as a key,
\* whatever its text.
C20_OnlyKeyLinesSetFields ==
    (op = "apt.PackageInfo" /\ pc = "done") =>
        LET ls == Split(msg, "\n")
        IN  pkgInfo = PackageInfo(LastValueOf(ls, "Package"), LastValueOf(ls, "Version"), "",
                              LastValueOf(ls, "Section"), LastValueOf(ls, "Architecture"),
                              "", AptPm)

\* key of a line of a dnf description block: the text before its first colon
DnfInfoKey(line) == TrimSpace(BeforeColon(line))

\* the lines of the block ls whose key is k
DnfInfoKeyed(ls, k) == {i \in 1..Len(ls) : Contains(ls[i], ":") /\ DnfInfoKey(ls[i]) = k}

\* a block with one line for each of Name, Version, Release and Architecture,
\* the version before the release
DnfInfoBlock(ls) ==
    /\ \A k \in DnfInfoFields : Cardinality(DnfInfoKeyed(ls, k)) = 1
    /\ \A i \in DnfInfoKeyed(ls, "Version") : \A j \in DnfInfoKeyed(ls, "Release") : i < j

DnfInfoValue(ls, k) == TrimSpace(AfterColon(ls[CHOOSE i \in DnfInfoKeyed(ls, k) : TRUE]))

\* C21: for a dnf description block with "Name : n", "Version : v",
\* "Release : r" and "Architecture : a" lines the package-detail parser
\* returns a record with name n, version "v-r" and architecture a, whatever
\* the order the patterns are tried in on each line; the other lines of the
\* block (Size, Summary, Description and its continuation lines) change nothing.
C21_DetailFromKeyLines ==
    (op = "dnf.PackageInfo" /\ pc = "done" /\ DnfInfoBlock(Split(msg, "\n"))) =>
        LET ls == Split(msg, "\n")
        IN  /\ pkgInfo.Name = DnfInfoValue(ls, "Name")
            /\ pkgInfo.Version = DnfInfoValue(ls, "Version") \o "-" \o DnfInfoValue(ls, "Release")
            /\ pkgInfo.Arch = DnfInfoValue(ls, "Architecture")

\* the records ParseDpkgQueryOutput returns for the lines ls and the mapping packages
RECURSIVE ParseDpkgQueryOutput(_, _, _, _)
ParseDpkgQueryOutput(ls, i, list, packages) ==
    IF i > Len(ls) THEN list
    ELSE LET r == DpkgLineStep(list, packages, ls[i])
         IN  ParseDpkgQueryOutput(ls, i + 1, r.list, r.packages)

\* C22: a parser called twice with the same inputs returns the same records in
\* the same order: the record getPackageStatus appends next is determined by
\* the inputs, ParseDpkgQueryOutput called again with the same output and the
\* same mapping object returns what it returned the first time, and the
\* package-detail parser has one possible result.
C22_SameInputsSameRecords ==
    /\ pc = "leftover" =>
           \A n1, n2 \in DOMAIN packagesDict \ visited :
               LeftoverRecord(packagesDict[n1]) = LeftoverRecord(packagesDict[n2])
    /\ (pc = "leftover" /\ visited = {}) =>
           ParseDpkgQueryOutput(dlines, 1, <<>>, packagesDict) = packagesList
    /\ (op = "dnf.PackageInfo" /\ pc = "call") =>
           Cardinality(DnfParsePackageInfoOutput(msg, opts)) = 1

\* C23: the settings argument does not influence the outcome of a parse: the
\* call made with the verbosity flag on, with the flag off or without a
\* settings object returns the same records, and it fails with none of the
\* three when it returns with one of them.
C23_SettingsDoNotMatter ==
    (op \in LineOps \cup {"dnf.Find"} /\ pc \in {"done", "panic"}) =>
        \A o2 \in OptsValues :
            LET r == RunParser(op, msg, exactMatch, o2)
            IN  /\ r.panic = panicked
                /\ r.packages = ret

\* the mapping ParseDpkgQueryOutput leaves after the lines before line i
RECURSIVE DpkgRemaining(_, _, _)
DpkgRemaining(ls, i, packages) ==
    IF i <= 1 THEN packages
    ELSE DpkgLineStep(<<>>, DpkgRemaining(ls, i - 1, packages), ls[i - 1]).packages

\* what the call c does when it runs alone: whether it panics, whether it
\* returns no record, the records of the dpkg-query lines and the records of
\* the packages left over (appended in map order)
Alone(c) ==
    LET bs == FindBlocks(c.msg)
        dict == FindDict(bs, 1, EmptyDict)
        ls == DpkgLines(c.out)
        left == DpkgRemaining(ls, Len(ls) + 1, dict)
    IN  [panic |-> \E i \in 1..Len(bs) : FindBlockStep(EmptyDict, bs[i]).panic,
         none |-> DOMAIN dict = {} \/ CommandFailed(c.runErr, c.out),
         list |-> ParseDpkgQueryOutput(ls, 1, <<>>, dict),
         rest |-> {LeftoverRecord(left[n]) : n \in DOMAIN left}]

\* the mapping the call c has when it runs alone and stands where it stands
AloneMapping(c) ==
    LET dict == FindDict(SubSeq(c.blocks, 1, c.bi - 1), 1, EmptyDict)
    IN  CASE c.pc = "call" -> EmptyDict
          [] c.pc \in {"find_loop", "panic"} -> dict
          [] c.pc = "done" /\ Alone(c).none -> dict
          [] OTHER -> DpkgRemaining(c.dlines, c.di, dict)

\* C24: two search-and-reconcile calls that run at the same time on
\* independent inputs share no pending mapping: under every interleaving of
\* their steps each call works on the mapping it has when it runs alone, and
\* its result is the one it produces alone.
C24_ConcurrentCallsIndependent ==
    \A p \in Procs :
        LET c == calls[p]
            a == Alone(c)
            k == Len(a.list)
        IN  /\ c.pc # "call" => maps[Owner(p)] = AloneMapping(c)
            /\ c.pc = "panic" => a.panic
            /\ c.pc = "done" =>
                   /\ ~a.panic
                   /\ IF a.none THEN c.ret = <<>>
                      ELSE /\ Len(c.ret) = k + Cardinality(a.rest)
                           /\ SubSeq(c.ret, 1, k) = a.list
                           /\ {c.ret[j] : j \in (k + 1)..Len(c.ret)} = a.rest

C24_Witness ==
    /\ calls[1].pc = "done"
    /\ Len(calls[1].ret) = 2
    /\ calls[2].pc = "dpkg_loop"
    /\ calls[2].di = 1
    /\ calls[2].msg # calls[1].msg
    /\ DOMAIN maps[2] = {"a"}
    /\ maps[1] = EmptyDict

\* the parser that belongs to an adapter operation: the parser of the output
\* of that operation's command
MatchingParser(a) ==
    CASE a \in {"apt.Install", "apt.Upgrade"} -> "apt.Install"
      [] a = "apt.Uninstall" -> "apt.Deleted"
      [] a = "apt.Search" -> "apt.Find"
      [] a = "apt.ListInstalled" -> "apt.ListInstalled"
      [] a \in {"dnf.Install", "dnf.ListInstalled", "dnf.Upgrade"} -> "dnf.Install"
      [] a = "dnf.Delete" -> "dnf.Deleted"
      [] a = "dnf.Find" -> "dnf.Find"

\* C25: every non-interactive adapter operation hands the captured text to the
\* parser of that same operation (install to the install-output parser, remove
\* to the remove-output parser, list-installed to the list-installed parser,
\* upgrade to the parser of the upgrade's lines, search to the search parser,
\* whose records of a non-empty mapping come from the reconciliation); when the
\* process invocation fails the operation returns the transport error with no
\* records and no parser is called.
C25_AdapterHandsTextToItsParser ==
    /\ (adapterOp # "none" /\ pc # "adapter" /\ cmdErr = "nil") =>
           /\ op = MatchingParser(adapterOp)
           /\ (adapterOp = "apt.Search" /\ pc = "done" /\ ret # <<>>) => queryCount > 0
    /\ (adapterOp # "none" /\ pc # "adapter" /\ cmdErr # "nil") =>
           /\ pc = "done"
           /\ op = "none"
           /\ ret = <<>>
           /\ retErr = "transport"

\* the names a transcript lists in its "Upgrading:" section: the first field of
\* each line from the section's heading down to the next empty line
RECURSIVE SectionNames(_, _, _)
SectionNames(lines, i, acc) ==
    IF i > Len(lines) \/ Fields(lines[i]) = <<>> THEN acc
    ELSE SectionNames(lines, i + 1, Append(acc, Fields(lines[i])[1]))

UpgradedNames(m) ==
    LET lines == Split(m, "\n")
        heads == {i \in 1..Len(lines) : lines[i] = "Upgrading:"}
    IN  IF heads = {} THEN <<>>
        ELSE SectionNames(lines, (CHOOSE i \in heads : \A j \in heads : i <= j) + 1, <<>>)

\* C26: parsing the captured output of a dnf upgrade returns exactly one record
\* per package the transaction upgraded (two for the transcript whose
\* "Upgrading:" and "Upgraded:" sections list two packages), whatever other
\* lines the output contains.
C26_OneRecordPerUpgradedPackage ==
    (adapterOp = "dnf.Upgrade" /\ cmdErr = "nil" /\ pc = "done") =>
        /\ Len(ret) = Len(UpgradedNames(msg))
        /\ \A i \in 1..Len(ret) : ret[i].Name = UpgradedNames(msg)[i]

\* a line '<name>[:arch] <want> <flag> <state> [<version>]' of dpkg-query
AuthoritativeLine(line) ==
    /\ ~HasPrefix(line, "dpkg-query:")
    /\ Len(Fields(line)) \in {4, 5}

\* the status that belongs to a state token
StateStatus(state) ==
    CASE state = "installed" -> PackageStatusInstalled
      [] state = "config-files" -> PackageStatusConfigFiles
      [] OTHER -> PackageStatusAvailable

\* C27: for every authoritative line whose name is in the pending mapping, the
\* merged record gets status installed exactly when the state token is
\* "installed", config-files exactly when it is "config-files", and available
\* for every other state, with or without a version after the state.
C27_StatusByStateToken ==
    [][(/\ pc = "dpkg_loop"
        /\ di <= Len(dlines)
        /\ AuthoritativeLine(dlines[di])
        /\ DpkgLineName(Fields(dlines[di])) \in DOMAIN packagesDict)
       => /\ Len(packagesList') = Len(packagesList) + 1
          /\ packagesList'[Len(packagesList')].Status = StateStatus(Fields(dlines[di])[4])]_vars

====
